---- MODULE Spec2Model ----
(***************************************************************************)
(* Course election (src/app.py): the meeting-time parser, the conflict     *)
(* detector, the timetable projector and the Streamlit session that holds  *)
(* the list of selected courses.                                           *)
(*                                                                         *)
(* Text.  A Python str is modelled as a sequence of characters.  The       *)
(* module is ASCII, so every character of the source's vocabulary has an   *)
(* ASCII name:                                                             *)
(*    "zhou"                         U+5468, first character of a day name *)
(*    "yi" "er" "san" "si" "wu" "liu" "ri"   second character of Mon..Sun  *)
(*    "dan" / "shuang"               the odd-weeks / even-weeks marker     *)
(*    "comma"                        the full-width comma U+FF0C           *)
(*    "-", " ", "0".."9", "x"        themselves ("x": any other character) *)
(* Column names of the data frame are written in pinyin:                   *)
(*    kechenghao = course id, banhao = class id, kechengming = title,      *)
(*    shangkeshijian = meeting time, parsed_time = '_parsed_time'.         *)
(***************************************************************************)
EXTENDS Integers, Sequences, FiniteSets, TLC

\* ------------------------------------------------------------------------
\* Python values

\* Python's None as returned by check_conflict; no title equals it.
None == "None"

\* A missing cell of the data frame (float NaN), as a one-element text that
\* no real string equals.
NaN == <<"NaN">>

\* pd.isna(time_str)
isna(time_str) == time_str = NaN

\* Truth value of what check_conflict returns (`if conflict_course:`):
\* None and the empty str are false, every other str is true.  Titles are
\* modelled as str; "" stands for any title Python takes for false.
truthy(v) == v # None /\ v # ""

Digits == {"0", "1", "2", "3", "4", "5", "6", "7", "8", "9"}

DigitVal(c) ==
    CASE c = "0" -> 0 [] c = "1" -> 1 [] c = "2" -> 2 [] c = "3" -> 3
      [] c = "4" -> 4 [] c = "5" -> 5 [] c = "6" -> 6 [] c = "7" -> 7
      [] c = "8" -> 8 [] c = "9" -> 9

Range(s) == {s[i] : i \in 1..Len(s)}

\* str.split(sep) for a one-character sep: always at least one part.
RECURSIVE split(_, _)
split(s, sep) ==
    IF \A i \in 1..Len(s) : s[i] # sep
    THEN <<s>>
    ELSE LET k == CHOOSE i \in 1..Len(s) :
                     s[i] = sep /\ \A j \in 1..(i - 1) : s[j] # sep
         IN  <<SubSeq(s, 1, k - 1)>> \o split(SubSeq(s, k + 1, Len(s)), sep)

\* str.replace(c, '') for a one-character c: every occurrence goes.
RECURSIVE replace(_, _)
replace(s, c) ==
    IF s = <<>> THEN <<>>
    ELSE IF Head(s) = c THEN replace(Tail(s), c)
    ELSE <<Head(s)>> \o replace(Tail(s), c)

\* str.strip() as int() applies it: leading and trailing blanks go.
RECURSIVE lstrip(_)
lstrip(s) == IF s # <<>> /\ Head(s) = " " THEN lstrip(Tail(s)) ELSE s

RECURSIVE rstrip(_)
rstrip(s) ==
    IF s # <<>> /\ s[Len(s)] = " " THEN rstrip(SubSeq(s, 1, Len(s) - 1)) ELSE s

\* int(s) succeeds (no ValueError): blanks around a non-empty run of digits.
\* (Signs, underscores and other blanks are outside the modelled alphabet.)
int_ok(s) ==
    LET t == rstrip(lstrip(s))
    IN  t # <<>> /\ \A i \in 1..Len(t) : t[i] \in Digits

RECURSIVE digits_value(_)
digits_value(t) ==
    IF t = <<>> THEN 0
    ELSE 10 * digits_value(SubSeq(t, 1, Len(t) - 1)) + DigitVal(t[Len(t)])

\* int(s), where int_ok(s)
int(s) == digits_value(rstrip(lstrip(s)))

\* ------------------------------------------------------------------------
\* parse_time

\* day_map: second character of the day name -> day
day_map ==
    [c \in {"yi", "er", "san", "si", "wu", "liu", "ri"} |->
        CASE c = "yi" -> "mon" [] c = "er" -> "tue" [] c = "san" -> "wed"
          [] c = "si" -> "thu" [] c = "wu" -> "fri" [] c = "liu" -> "sat"
          [] c = "ri" -> "sun"]

\* One iteration of the loop over the clauses: the slots it appends (none or
\* one).
parse_slot(slot0) ==
    LET week_type == IF "dan" \in Range(slot0) THEN "odd"
                     ELSE IF "shuang" \in Range(slot0) THEN "even"
                     ELSE "all"
        slot1 == IF "dan" \in Range(slot0) THEN replace(slot0, "dan")
                 ELSE IF "shuang" \in Range(slot0) THEN replace(slot0, "shuang")
                 ELSE slot0
        has_day == Len(slot1) >= 2 /\ slot1[1] = "zhou"
                      /\ slot1[2] \in DOMAIN day_map
        slot2 == IF has_day THEN SubSeq(slot1, 3, Len(slot1)) ELSE slot1
        parts == split(slot2, "-")
    IN  IF has_day /\ "-" \in Range(slot2)
             /\ Len(parts) = 2 /\ int_ok(parts[1]) /\ int_ok(parts[2])
        THEN <<[day |-> day_map[slot1[2]],
                start_period |-> int(parts[1]),
                end_period |-> int(parts[2]),
                week_type |-> week_type]>>
        ELSE <<>>

RECURSIVE parse_slots(_)
parse_slots(slots) ==
    IF slots = <<>> THEN <<>>
    ELSE parse_slot(Head(slots)) \o parse_slots(Tail(slots))

parse_time(time_str) ==
    IF isna(time_str) THEN <<>> ELSE parse_slots(split(time_str, "comma"))

\* The exception the body of the `try` raises for one clause, "none" when it
\* raises none or is not entered: unpacking anything but two parts and int()
\* of a non-number both raise ValueError.
try_raises(slot0) ==
    LET slot1 == IF "dan" \in Range(slot0) THEN replace(slot0, "dan")
                 ELSE IF "shuang" \in Range(slot0) THEN replace(slot0, "shuang")
                 ELSE slot0
        has_day == Len(slot1) >= 2 /\ slot1[1] = "zhou"
                      /\ slot1[2] \in DOMAIN day_map
        slot2 == IF has_day THEN SubSeq(slot1, 3, Len(slot1)) ELSE slot1
        parts == split(slot2, "-")
    IN  IF has_day /\ "-" \in Range(slot2)
             /\ ~(Len(parts) = 2 /\ int_ok(parts[1]) /\ int_ok(parts[2]))
        THEN "ValueError" ELSE "none"

\* `except ValueError: continue`
except_catches(exception) == exception = "ValueError"

\* The exception that leaves parse_time, "none" when it returns.
parse_time_raises(time_str) ==
    IF isna(time_str) THEN "none"
    ELSE LET slots == split(time_str, "comma")
         IN  IF \E i \in 1..Len(slots) :
                    /\ try_raises(slots[i]) # "none"
                    /\ ~except_catches(try_raises(slots[i]))
             THEN "ValueError" ELSE "none"

\* ------------------------------------------------------------------------
\* create_timetable

days == {"mon", "tue", "wed", "thu", "fri", "sat", "sun"}

\* range(1, 13)
periods == 1..12

\* timetable[day] = {period: [] for period in range(1, 13)}
empty_timetable == [d \in days |-> [p \in periods |-> <<>>]]

\* f"{title} ({class id})": the two values the label is formatted from.
course_display(course) == <<course.kechengming, course.banhao>>

\* The slot list the projector uses: the attached '_parsed_time' when the
\* course carries one, a fresh parse otherwise.
time_slots_of(course) ==
    IF "parsed_time" \in DOMAIN course THEN course.parsed_time
    ELSE parse_time(course.shangkeshijian)

\* timetable[day][period] raises KeyError for this slot: some period of
\* range(start_period, end_period + 1) is not a key of the grid.
slot_raises(slot) ==
    \E p \in slot.start_period..slot.end_period : p \notin periods

\* fill_slot that inserts at the front of the cell instead of appending.
fill_slot_prepend(timetable, course, slot) ==
    [d \in days |-> [p \in periods |->
        IF d = slot.day /\ p \in slot.start_period..slot.end_period
        THEN <<[course |-> <<course.kechengming, course.banhao>>,
                week |-> slot.week_type]>> \o timetable[d][p]
        ELSE timetable[d][p]]]

\* The loop over range(start_period, end_period + 1) for one slot, none of
\* whose periods raises.
fill_slot(timetable, course, slot) ==
    [d \in days |-> [p \in periods |->
        IF d = slot.day /\ p \in slot.start_period..slot.end_period
        THEN Append(timetable[d][p],
                    [course |-> course_display(course), week |-> slot.week_type])
        ELSE timetable[d][p]]]

RECURSIVE fill_slots(_, _, _)
fill_slots(timetable, course, time_slots) ==
    IF time_slots = <<>> THEN timetable
    ELSE fill_slots(fill_slot(timetable, course, Head(time_slots)),
                    course, Tail(time_slots))

RECURSIVE fill_courses(_, _)
fill_courses(timetable, selected) ==
    IF selected = <<>> THEN timetable
    ELSE fill_courses(fill_slots(timetable, Head(selected),
                                 time_slots_of(Head(selected))),
                      Tail(selected))

\* create_timetable raises KeyError on this list.
timetable_raises(selected) ==
    \E k \in 1..Len(selected) :
        \E j \in 1..Len(time_slots_of(selected[k])) :
            slot_raises(time_slots_of(selected[k])[j])

\* The outcome of create_timetable: the grid, or the KeyError that ends the
\* call (the half-filled grid is a local and is lost).
create_timetable(selected) ==
    IF timetable_raises(selected)
    THEN [error |-> "KeyError", timetable |-> empty_timetable]
    ELSE [error |-> "none", timetable |-> fill_courses(empty_timetable, selected)]

\* ------------------------------------------------------------------------
\* Credits (main, lines 620-623 and the credit banner)

\* A cell of the credit column: a number (by its digits), a missing cell
\* (float NaN) or a text.  "absent" stands for a course dict without the
\* column.
Number(digits) == [type |-> "number", text |-> digits]
MissingNumber == [type |-> "nan", text |-> <<"nan">>]
Text(t) == [type |-> "str", text |-> t]
Absent == [type |-> "absent", text |-> <<>>]

\* course.get(credit column, 0)
get_credit(course) ==
    IF course.cankaoxuefen.type = "absent" THEN Number(<<"0">>)
    ELSE course.cankaoxuefen

\* float(x) raises ValueError: a str that is no number.  (Decimal points,
\* signs and the texts 'nan' and 'inf' are outside the modelled alphabet.)
float_raises(cell) == cell.type = "str" /\ ~int_ok(cell.text)

\* float(x), where it does not raise: NaN or a value.
float(cell) ==
    IF cell.type = "nan" THEN [nan |-> TRUE, value |-> 0]
    ELSE [nan |-> FALSE, value |-> int(cell.text)]

\* a + b on floats: NaN absorbs.
float_add(a, b) ==
    IF a.nan \/ b.nan THEN [nan |-> TRUE, value |-> 0]
    ELSE [nan |-> FALSE, value |-> a.value + b.value]

\* sum(float(course.get(credit column, 0)) for course in selected), where no
\* float() raises: starts from 0 and adds left to right.
RECURSIVE current_credits(_)
current_credits(selected) ==
    IF selected = <<>> THEN [nan |-> FALSE, value |-> 0]
    ELSE float_add(current_credits(SubSeq(selected, 1, Len(selected) - 1)),
                   float(get_credit(selected[Len(selected)])))

\* Line 623 raises ValueError.
credits_raise(selected) ==
    \E i \in 1..Len(selected) : float_raises(get_credit(selected[i]))

\* max_credits = 25 if degree_type == "single" else 30
max_credits(degree_type) == IF degree_type = "single" THEN 25 ELSE 30

\* `current_credits >= max_credits`
over_limit_or_equal(current, max) == ~current.nan /\ current.value >= max

\* `current_credits > max_credits`: a comparison with NaN is False.
over_limit(current, max) == ~current.nan /\ current.value > max

\* ------------------------------------------------------------------------
\* The catalog

\* One row of the data frame as read from the file.
Row(id, class, title, credit, time) ==
    [kechenghao |-> id, banhao |-> class, kechengming |-> title,
     cankaoxuefen |-> credit, shangkeshijian |-> time]

\* The catalog the session runs on.  The first ten rows have one row per
\* (course id, class id), as the merge of load_data leaves them; the last row
\* repeats the key of the sixth with another meeting time, as a row of an
\* uploaded sheet can (main takes the upload unmerged).  Two classes of one
\* course share a title;
\* one row has an empty title, one no meeting time, one an unparseable one,
\* one a period past the grid, one a period before it, one a reversed range.
\* The first and the third row carry more than 25 credits together; one row
\* has no credit, one a credit that is no number.
raw_df ==
    << Row("CS101", "01", "A", Number(<<"1", "4">>),
           <<"zhou", "yi", "1", "-", "2">>),
       Row("CS101", "02", "A", Number(<<"3">>),
           <<"zhou", "yi", "2", "-", "3">>),
       Row("CS102", "01", "B", Number(<<"1", "3">>),
           <<"zhou", "er", "1", "-", "2", "dan">>),
       Row("CS103", "01", "C", Number(<<"3">>),
           <<"zhou", "er", "1", "-", "2", "shuang">>),
       Row("CS104", "01", "E", MissingNumber, NaN),
       Row("CS105", "01", "F", Number(<<"2">>),
           <<"x", "1", "-", "2">>),
       Row("CS106", "01", "", Number(<<"2">>),
           <<"zhou", "yi", "1", "-", "2", "comma",
             "zhou", "san", "3", "-", "4">>),
       Row("CS107", "01", "G", Number(<<"2">>),
           <<"zhou", "san", "1", "2", "-", "1", "3">>),
       Row("CS108", "01", "H", Number(<<"2">>),
           <<"zhou", "si", "0", "-", "1">>),
       Row("CS109", "01", "I", Text(<<"x">>),
           <<"zhou", "yi", "3", "-", "1">>),
       Row("CS105", "01", "F", Number(<<"2">>),
           <<"zhou", "wu", "5", "-", "6">>) >>

\* Every row gets an empty '_parsed_time'.
preprocess_no_parse(df) ==
    [i \in 1..Len(df) |->
        [kechenghao |-> df[i].kechenghao, banhao |-> df[i].banhao,
         kechengming |-> df[i].kechengming,
         cankaoxuefen |-> df[i].cankaoxuefen,
         shangkeshijian |-> df[i].shangkeshijian,
         parsed_time |-> <<>>]]

\* preprocess_course_times: every row gets its '_parsed_time' column.
preprocess_course_times(df) ==
    [i \in 1..Len(df) |->
        [kechenghao |-> df[i].kechenghao, banhao |-> df[i].banhao,
         kechengming |-> df[i].kechengming,
         cankaoxuefen |-> df[i].cankaoxuefen,
         shangkeshijian |-> df[i].shangkeshijian,
         parsed_time |-> IF isna(df[i].shangkeshijian) THEN <<>>
                         ELSE parse_time(df[i].shangkeshijian)]]

\* df, as main holds it after `df = preprocess_course_times(df)`
df == preprocess_course_times(raw_df)

\* ------------------------------------------------------------------------
\* check_conflict

\* parse_time is decorated with st.cache_data: a call with an argument seen
\* before returns the stored result.  The parses of the catalog's meeting
\* strings, which are the arguments of a session:
parse_time_cache ==
    [time_str \in {raw_df[i].shangkeshijian : i \in 1..Len(raw_df)} |->
        parse_time(time_str)]

\* A call of the decorated parse_time.
cached_parse_time(time_str) ==
    IF time_str \in DOMAIN parse_time_cache THEN parse_time_cache[time_str]
    ELSE parse_time(time_str)

\* slots_conflict with the period test made strict (< and > for <= and >=).
slots_conflict_strict(new_slot, existing_slot) ==
    /\ new_slot.day = existing_slot.day
    /\ new_slot.start_period < existing_slot.end_period
    /\ new_slot.end_period > existing_slot.start_period
    /\ ~ \/ (new_slot.week_type = "odd" /\ existing_slot.week_type = "even")
         \/ (new_slot.week_type = "even" /\ existing_slot.week_type = "odd")

\* The three tests of the inner loop body: TRUE when control reaches
\* `return course[title]` for this pair of slots.
slots_conflict(new_slot, existing_slot) ==
    /\ new_slot.day = existing_slot.day
    /\ new_slot.start_period <= existing_slot.end_period
    /\ new_slot.end_period >= existing_slot.start_period
    /\ ~ \/ (new_slot.week_type = "odd" /\ existing_slot.week_type = "even")
         \/ (new_slot.week_type = "even" /\ existing_slot.week_type = "odd")

\* course_conflicts with the early exit on an empty slot list turned into a
\* hit.
course_conflicts_empty_hits(new_time_slots, course) ==
    LET existing_time_slots == cached_parse_time(course.shangkeshijian)
    IN  \/ existing_time_slots = <<>>
        \/ \E i \in 1..Len(new_time_slots) :
               \E j \in 1..Len(existing_time_slots) :
                   slots_conflict(new_time_slots[i], existing_time_slots[j])

\* The two inner loops for one enrolled course: TRUE when they return.
course_conflicts(new_time_slots, course) ==
    LET existing_time_slots == cached_parse_time(course.shangkeshijian)
    IN  \E i \in 1..Len(new_time_slots) :
            \E j \in 1..Len(existing_time_slots) :
                slots_conflict(new_time_slots[i], existing_time_slots[j])

\* scan_courses that keeps scanning after a hit and so reports the last
\* conflicting course.
RECURSIVE scan_courses_last(_, _, _)
scan_courses_last(new_time_slots, selected, k) ==
    IF k > Len(selected) THEN None
    ELSE IF scan_courses_last(new_time_slots, selected, k + 1) # None
         THEN scan_courses_last(new_time_slots, selected, k + 1)
         ELSE IF \E i \in 1..Len(new_time_slots) :
                     \E j \in 1..Len(cached_parse_time(selected[k].shangkeshijian)) :
                         slots_conflict(new_time_slots[i],
                                        cached_parse_time(selected[k].shangkeshijian)[j])
              THEN selected[k].kechengming
              ELSE None

\* The outer loop from position k on: the title of the first course whose
\* inner loops return, None when the loop runs out.
RECURSIVE scan_courses(_, _, _)
scan_courses(new_time_slots, selected, k) ==
    IF k > Len(selected) THEN None
    ELSE IF course_conflicts(new_time_slots, selected[k])
         THEN selected[k].kechengming
         ELSE scan_courses(new_time_slots, selected, k + 1)

check_conflict(new_course_time, selected) ==
    LET new_time_slots == cached_parse_time(new_course_time)
    IN  IF new_time_slots = <<>> THEN None
        ELSE scan_courses(new_time_slots, selected, 1)

\* ------------------------------------------------------------------------
\* load_data and the catalog main goes on with

\* One row of the Excel sheet, of the columns the merge looks at.  Course and
\* class ids are numbers here so that groupby has its sort order.
SheetRow(id, class, audience) ==
    [kechenghao |-> id, banhao |-> class, xiududuixiang |-> audience]

\* The key groupby(['kechenghao', 'banhao']) groups by.
group_key(row) == <<row.kechenghao, row.banhao>>

key_less(a, b) == a[1] < b[1] \/ (a[1] = b[1] /\ a[2] < b[2])

\* The group keys in the order groupby iterates them (sort=True).
RECURSIVE sorted_keys(_)
sorted_keys(S) ==
    IF S = {} THEN <<>>
    ELSE LET first == CHOOSE k \in S : \A o \in S \ {k} : key_less(k, o)
         IN  <<first>> \o sorted_keys(S \ {first})

\* The rows of one group, in sheet order.
group_rows(rows, key) ==
    LET in_group(row) == group_key(row) = key
    IN  SelectSeq(rows, in_group)

\* Series.astype(str): a missing cell becomes the text 'nan'.
astype_str(cell) == IF cell = NaN THEN <<"nan">> ELSE cell

\* Series.unique() that keeps every value.
RECURSIVE unique_keep_all(_)
unique_keep_all(values) ==
    IF values = <<>> THEN <<>>
    ELSE Append(unique_keep_all(SubSeq(values, 1, Len(values) - 1)),
                values[Len(values)])

\* Series.unique(): the distinct values in order of first appearance.
RECURSIVE unique(_)
unique(values) ==
    IF values = <<>> THEN <<>>
    ELSE LET before == unique(SubSeq(values, 1, Len(values) - 1))
             last == values[Len(values)]
         IN  IF \E i \in 1..Len(before) : before[i] = last
             THEN before ELSE Append(before, last)

\* sep.join(parts) for a one-character sep
RECURSIVE join(_, _)
join(sep, parts) ==
    IF parts = <<>> THEN <<>>
    ELSE IF Len(parts) = 1 THEN parts[1]
    ELSE parts[1] \o <<sep>> \o join(sep, Tail(parts))

\* One iteration of `for _, group in grouped`: the row it appends.
merge_group(group) ==
    IF Len(group) > 1
    THEN [group[1] EXCEPT !.xiududuixiang =
             join("comma",
                  unique([i \in 1..Len(group) |->
                             astype_str(group[i].xiududuixiang)]))]
    ELSE group[1]

\* processed_df, from the sheet df
processed_df(rows) ==
    LET keys == sorted_keys({group_key(rows[i]) : i \in 1..Len(rows)})
    IN  [k \in 1..Len(keys) |-> merge_group(group_rows(rows, keys[k]))]

\* generate_sample_data(), of the same columns: ids are text here.
sample_data ==
    << SheetRow("CS101", "01", <<"A">>), SheetRow("CS102", "01", <<"B">>),
       SheetRow("CS201", "01", <<"A">>), SheetRow("CS202", "01", <<"A">>),
       SheetRow("CS301", "01", <<"A">>), SheetRow("CS302", "01", <<"A">>),
       SheetRow("CS401", "01", <<"A">>), SheetRow("CS402", "01", <<"A">>) >>

\* Where the catalog comes from: courses.parquet is there (written by
\* load_data or by convert_data.py from a sheet), only a sheet is there,
\* neither is there and a file is uploaded, or sample data is generated.
Paths == {"parquet", "excel", "upload", "sample"}

\* load_data() returns None: neither courses.parquet nor a sheet is there.
load_data_is_None(path) == path \notin {"parquet", "excel"}

\* load_data() when it is not None: what courses.parquet holds, or the
\* sheet merged.
load_data(path, rows) == processed_df(rows)

\* df as main holds it before preprocess_course_times.
main_df(path, rows) ==
    IF ~load_data_is_None(path) THEN load_data(path, rows)
    ELSE IF path = "upload" THEN rows
    ELSE sample_data

\* ------------------------------------------------------------------------
\* The session (main)

\* The longest list of selected courses the model follows.
MaxEnrolled == 3

VARIABLES
    selected_courses,        \* st.session_state.selected_courses
    timetable_cache,         \* st.session_state.timetable_cache: <<>> is None
    timetable_courses_hash,  \* st.session_state.timetable_courses_hash: <<>> is None
    rendered,                \* the grid the last run put on the page: <<>> when none
    exported,                \* the sheet the last run built for the download
                             \* button: <<>> when none
    run_error,               \* how the last script run ended: "none",
                             \* "KeyError" or "ValueError"
    last_op,                 \* the button that started the last run, and what
                             \* its handler saw
    fn_time, fn_selected,    \* arguments of a direct call of the core functions
    fn_conflict,             \* <<>> or the result of check_conflict
    fn_timetable,            \* <<>> or the outcome of create_timetable
    pt_time,                 \* argument of a direct call of parse_time
    pt_result,               \* <<>> or the outcome of parse_time
    ld_rows,                 \* the rows of the file the catalog is read from
    ld_path,                 \* where the catalog comes from
    ld_df,                   \* <<>> or the data frame main goes on with
    cr_selected, cr_degree,  \* list and degree type of a credit banner
    cr_banner,               \* <<>> or what the banner shows
    ls_user_dept,            \* the sidebar's department
    ls_degree_type,          \* the sidebar's degree type
    ls_second_dept,          \* the sidebar's second department: None if none
    ls_dept_filter,          \* the department filter: "all" or a department
    ls_course_search,        \* the search box
    ls_current_page,         \* st.session_state.current_page
    ls_page,                 \* <<>> or what the last run listed
    rt                       \* what a retried selection has gone through

session_vars == <<selected_courses, timetable_cache, timetable_courses_hash,
                  rendered, exported, run_error, last_op>>
fn_vars == <<fn_time, fn_selected, fn_conflict, fn_timetable>>
parse_vars == <<pt_time, pt_result>>
load_vars == <<ld_rows, ld_path, ld_df>>
credit_vars == <<cr_selected, cr_degree, cr_banner>>
list_vars == <<ls_user_dept, ls_degree_type, ls_second_dept, ls_dept_filter,
               ls_course_search, ls_current_page, ls_page>>
aux_vars == <<parse_vars, load_vars, credit_vars, list_vars>>
vars == <<selected_courses, timetable_cache, timetable_courses_hash,
          rendered, exported, run_error, last_op,
          fn_time, fn_selected, fn_conflict, fn_timetable,
          pt_time, pt_result, ld_rows, ld_path, ld_df,
          cr_selected, cr_degree, cr_banner,
          ls_user_dept, ls_degree_type, ls_second_dept, ls_dept_filter,
          ls_course_search, ls_current_page, ls_page, rt>>

\* What one cell of the page's table says of an entry: the label, and
\* " (dan)" or " (shuang)" after it for an odd or even week.  (The texts of
\* a cell are joined by newlines; the model keeps them as a sequence.)
screen_info(c) ==
    [course |-> c.course,
     mark |-> IF c.week = "odd" THEN " (dan)"
              ELSE IF c.week = "even" THEN " (shuang)" ELSE ""]

\* timetable_data_for_df: the table the page draws from the grid.
timetable_data_for_df(timetable) ==
    [d \in days |-> [p \in periods |->
        [i \in 1..Len(timetable[d][p]) |-> screen_info(timetable[d][p][i])]]]

\* What one cell of the exported sheet says of an entry.
export_text(c) ==
    [course |-> c.course,
     mark |-> IF c.week = "odd" THEN " [dan]"
              ELSE IF c.week = "even" THEN " [shuang]" ELSE ""]

\* timetable_df: the sheet export_timetable_to_excel fills from the grid.
timetable_df(timetable) ==
    [d \in days |-> [p \in periods |->
        [i \in 1..Len(timetable[d][p]) |-> export_text(timetable[d][p][i])]]]

\* What export_timetable_to_excel returns once create_timetable has returned
\* `made` for the list: <<>> for None (no selected course) and for the
\* KeyError of create_timetable, else the sheet.
export_of(selected, made) ==
    IF selected = <<>> \/ made.error # "none" THEN <<>>
    ELSE <<timetable_df(made.timetable)>>

\* export_timetable_to_excel(selected_courses, lang)
export_timetable_to_excel(selected) ==
    export_of(selected, create_timetable(selected))

\* [(c[course id], c[class id]) for c in selected_courses]
course_keys(selected) ==
    [i \in 1..Len(selected) |-> <<selected[i].kechenghao, selected[i].banhao>>]

\* hash(str(...)) of the key list; the model takes the hash to be collision
\* free and stands the key list for it.
courses_hash_of(selected) == course_keys(selected)

\* The timetable section of one script run over the list `selected`, started
\* with the given cache: the cache it leaves, the grid it shows and how the
\* run ends.  A KeyError from create_timetable (at the display, or in
\* export_timetable_to_excel, which builds the grid again) ends the run.
\* `made` is what create_timetable returns for the list: the display calls
\* it on a cache miss, the export calls it in every run that gets there.
render(selected, cache, hash) ==
    IF selected = <<>>
    THEN [cache |-> cache, hash |-> hash, rendered |-> <<>>,
          exported |-> <<>>, error |-> "none"]
    ELSE LET courses_hash == courses_hash_of(selected)
             hit == hash = <<courses_hash>> /\ cache # <<>>
         IN  CHOOSE out \in
                 { IF hit
                   THEN [cache |-> cache, hash |-> hash,
                         rendered |-> <<cache[1]>>,
                         exported |-> export_of(selected, made),
                         error |-> made.error]
                   ELSE IF made.error # "none"
                   THEN [cache |-> cache, hash |-> hash, rendered |-> <<>>,
                         exported |-> <<>>, error |-> made.error]
                   ELSE [cache |-> <<made.timetable>>,
                         hash |-> <<courses_hash>>,
                         rendered |-> <<made.timetable>>,
                         exported |-> export_of(selected, made),
                         error |-> "none"]
                   : made \in {create_timetable(selected)} } : TRUE

\* One script run over the list `selected` from the top: the credit total
\* is computed above the course list, and a ValueError there ends the run
\* with nothing drawn.
script_run(selected, cache, hash) ==
    IF credits_raise(selected)
    THEN [cache |-> cache, hash |-> hash, rendered |-> <<>>,
          exported |-> <<>>, error |-> "ValueError"]
    ELSE render(selected, cache, hash)

SessionInit ==
    /\ selected_courses = <<>>
    /\ timetable_cache = <<>>
    /\ timetable_courses_hash = <<>>
    /\ rendered = <<>>
    /\ exported = <<>>
    /\ run_error = "none"
    /\ last_op = [kind |-> "start", row |-> 0, conflict_course |-> None]

\* The handler with a credit cap: a course is refused as well when the list
\* is over the limit of a single degree.
select_handler_capped(row, selected) ==
    CHOOSE out \in
        { [conflict_course |-> conflict_course,
           selected |-> IF truthy(conflict_course)
                           \/ over_limit(current_credits(selected),
                                         max_credits("single"))
                        THEN selected ELSE Append(selected, row)]
          : conflict_course \in {check_conflict(row.shangkeshijian, selected)} }
        : TRUE

\* The body of the select handler: what check_conflict returned and the list
\* the handler leaves.
select_handler(row, selected) ==
    CHOOSE out \in
        { [conflict_course |-> conflict_course,
           selected |-> IF truthy(conflict_course) THEN selected
                        ELSE Append(selected, row)]
          : conflict_course \in {check_conflict(row.shangkeshijian, selected)} }
        : TRUE

\* The list with its last course gone.
read_and_drop_last(selected) == SubSeq(selected, 1, Len(selected) - 1)

\* The list as the readers of a run leave it: the sum at line 623,
\* check_conflict, create_timetable and export_timetable_to_excel walk the
\* list and read its courses; none has a statement that writes to the list
\* or to a course.
read_only(selected) == [k \in 1..Len(selected) |-> selected[k]]

\* The select button of catalog row r.  The handler runs in the course list,
\* above the timetable: a refused selection lets the run go on to the
\* timetable, an accepted one appends and reruns the script.  The button
\* exists only in a run that got past the credit total.
SelectStep(r) ==
    /\ ~credits_raise(selected_courses)
    /\ \E handled \in {select_handler(df[r], selected_courses)} :
       \E conflict_course \in {handled.conflict_course} :
       \E after \in {read_only(handled.selected)} :
       \E run \in {script_run(after, timetable_cache,
                              timetable_courses_hash)} :
           /\ Len(after) <= MaxEnrolled
           /\ selected_courses' = after
           /\ timetable_cache' = run.cache
           /\ timetable_courses_hash' = run.hash
           /\ rendered' = run.rendered
           /\ exported' = run.exported
           /\ run_error' = run.error
           /\ last_op' = [kind |-> "select", row |-> r,
                          conflict_course |-> conflict_course]

Select(r) == SelectStep(r) /\ UNCHANGED <<fn_vars, aux_vars, rt>>

\* list.pop taking idx for a 1-based position.
pop_one_based(selected, idx) ==
    SubSeq(selected, 1, idx - 1) \o SubSeq(selected, idx + 1, Len(selected))

\* list.pop(idx), 0-based idx
pop(selected, idx) ==
    SubSeq(selected, 1, idx) \o SubSeq(selected, idx + 2, Len(selected))

\* The cancel button of the selected course at position idx (0-based).  The
\* buttons are drawn below the timetable, so they exist only when the last
\* run got that far; the run of the click passes the timetable again, pops
\* and reruns.
CancelStep(idx) ==
    /\ run_error = "none"
    /\ idx \in 0..(Len(selected_courses) - 1)
    /\ \E before \in {render(selected_courses, timetable_cache,
                              timetable_courses_hash)} :
       \E after \in {read_only(pop(read_only(selected_courses), idx))} :
       \E run \in {script_run(after, before.cache, before.hash)} :
           /\ before.error = "none"
           /\ selected_courses' = after
           /\ timetable_cache' = run.cache
           /\ timetable_courses_hash' = run.hash
           /\ rendered' = run.rendered
           /\ exported' = run.exported
           /\ run_error' = run.error
           /\ last_op' = [kind |-> "cancel", row |-> idx,
                          conflict_course |-> None]

Cancel(idx) == CancelStep(idx) /\ UNCHANGED <<fn_vars, aux_vars, rt>>

FnIdle ==
    /\ fn_time = <<>>
    /\ fn_selected = <<>>
    /\ fn_conflict = <<>>
    /\ fn_timetable = <<>>

ParseIdle == pt_time = <<>> /\ pt_result = <<>>

LoadIdle == ld_rows = <<>> /\ ld_path = "none" /\ ld_df = <<>>

CreditIdle == cr_selected = <<>> /\ cr_degree = "single" /\ cr_banner = <<>>

ListIdle ==
    /\ ls_user_dept = "" /\ ls_degree_type = "single" /\ ls_second_dept = None
    /\ ls_dept_filter = "all" /\ ls_course_search = <<>>
    /\ ls_current_page = 1 /\ ls_page = <<>>

RetryIdle == rt = [phase |-> "idle"]

Init ==
    /\ SessionInit /\ FnIdle /\ ParseIdle /\ LoadIdle /\ CreditIdle
    /\ ListIdle /\ RetryIdle

Next ==
    \/ \E r \in 1..Len(df) : Select(r)
    \/ \E idx \in 0..(MaxEnrolled - 1) : Cancel(idx)

Spec == Init /\ [][Next]_vars

\* ------------------------------------------------------------------------
\* Direct calls of check_conflict and create_timetable on arbitrary arguments

\* The longest enrolled sequence handed to a direct call.
MaxFnEnrolled == 3

\* <day><a>-<b><marker>
clause(day_char, a, b, marker) == <<"zhou", day_char, a, "-", b>> \o marker

\* The meeting strings handed to a direct call: every clause over Monday,
\* the periods 1..3 and the three parities, some over Tuesday, and strings
\* with no clause, a broken clause, a blank, several clauses or a period
\* past the grid.
FnClauses ==
    {clause("yi", a, b, m) : a \in {"1", "2", "3"}, b \in {"1", "2", "3"},
                             m \in {<<>>, <<"dan">>, <<"shuang">>}}
    \cup
    {clause("er", "2", b, m) : b \in {"1", "2"},
                               m \in {<<>>, <<"dan">>, <<"shuang">>}}

FnTimes ==
    FnClauses \cup
    { NaN, <<>>, <<"x", "1", "-", "2">>, <<"zhou", "yi", "1", "-">>,
      <<"zhou", "yi", " ", "1", "-", "2">>,
      <<"zhou", "yi", "1", "-", "1", "comma", "zhou", "er", "3", "-", "3">>,
      <<"zhou", "yi", "1", "-", "1", "dan", "comma",
        "zhou", "yi", "x", "comma", "zhou", "yi", "3", "-", "3", "shuang">>,
      <<"zhou", "er", "1", "2", "-", "1", "3">> }

\* The courses an enrolled sequence of a direct call is made of: list items
\* as the session stores them (with '_parsed_time') and plain records
\* without it; one has an empty title, one no meeting time, one a period
\* past the grid, two have two clauses.
FnCourses ==
    { df[1], df[8],
      Row("M1", "01", "A", Number(<<"3">>),
           <<"zhou", "yi", "2", "-", "3", "dan">>),
      Row("M2", "01", "", Number(<<"3">>),
           <<"zhou", "yi", "2", "-", "2", "shuang">>),
      Row("M3", "02", "C", Number(<<"2">>),
           <<"zhou", "er", "1", "-", "3", "comma",
             "zhou", "yi", "3", "-", "3">>),
      Row("M4", "01", "D", MissingNumber, NaN),
      Row("M6", "01", "F", Number(<<"2">>),
           <<"zhou", "er", "2", "-", "2", "dan", "comma",
             "zhou", "er", " ", "2", "-", "3", "shuang">>) }

RECURSIVE SeqsUpTo(_, _)
SeqsUpTo(S, n) ==
    IF n = 0 THEN {<<>>}
    ELSE LET shorter == SeqsUpTo(S, n - 1)
         IN  shorter \cup {Append(q, x) : q \in shorter, x \in S}

FnInit ==
    /\ SessionInit
    /\ fn_time \in FnTimes
    /\ fn_selected \in SeqsUpTo(FnCourses, MaxFnEnrolled)
    /\ fn_conflict = <<>>
    /\ fn_timetable = <<>>
    /\ ParseIdle /\ LoadIdle /\ CreditIdle /\ ListIdle /\ RetryIdle

\* conflict = check_conflict(time, selected)
CallCheckConflict ==
    /\ fn_conflict = <<>>
    /\ fn_conflict' = <<check_conflict(fn_time, fn_selected)>>
    /\ UNCHANGED <<fn_time, fn_selected, fn_timetable>>
    /\ UNCHANGED <<session_vars, aux_vars, rt>>

\* timetable, day_names = create_timetable(selected, lang)
CallCreateTimetable ==
    /\ fn_conflict # <<>>
    /\ fn_timetable = <<>>
    /\ fn_timetable' = <<create_timetable(fn_selected)>>
    /\ UNCHANGED <<fn_time, fn_selected, fn_conflict>>
    /\ UNCHANGED <<session_vars, aux_vars, rt>>

FnNext == CallCheckConflict \/ CallCreateTimetable

SpecFn == FnInit /\ [][FnNext]_vars

\* ------------------------------------------------------------------------
\* Direct calls of parse_time on arbitrary meeting strings

\* The most clauses a meeting string handed to parse_time has.
MaxPtClauses == 2

Insert(s, k, c) == SubSeq(s, 1, k) \o <<c>> \o SubSeq(s, k + 1, Len(s))

\* What stands where the day name should: a day name, nothing, another
\* character, half a day name.
PtDays == { <<"zhou", "yi">>, <<"zhou", "ri">>, <<>>, <<"x">>, <<"zhou">> }

\* What stands where the period range should.
PtRanges ==
    { <<"1", "-", "2">>, <<"2", "-", "1">>, <<"0", "-", "1">>, <<"3", "-", "3">>,
      <<"1", "2", "-", "1", "3">>, <<" ", "1", "-", " ", "2", " ">>,
      <<"1", "-">>, <<"-", "2">>, <<"1", "-", "2", "-", "3">>,
      <<"x", "-", "2">>, <<"1">> }

\* Where a week marker is put into the clause.
PtMarks == { "none", "dan_end", "shuang_end", "dan_front", "dan_mid",
             "shuang_mid", "dan_in_day", "both_end" }

pt_clause(d, r, mark) ==
    CASE mark = "none" -> d \o r
      [] mark = "dan_end" -> d \o r \o <<"dan">>
      [] mark = "shuang_end" -> d \o r \o <<"shuang">>
      [] mark = "dan_front" -> <<"dan">> \o d \o r
      [] mark = "dan_mid" -> d \o <<"dan">> \o r
      [] mark = "shuang_mid" -> d \o <<"shuang">> \o r
      [] mark = "dan_in_day" -> Insert(d \o r, 1, "dan")
      [] mark = "both_end" -> d \o r \o <<"shuang", "dan">>

PtClauses == {pt_clause(d, r, m) : d \in PtDays, r \in PtRanges, m \in PtMarks}

\* The clauses a longer meeting string is continued with.
PtMore ==
    { <<"zhou", "er", "3", "-", "4">>, <<"zhou", "san", "5", "-", "6", "dan">>,
      <<"x">>, <<>> }

\* The meeting strings of at most n clauses.
RECURSIVE PtStrings(_)
PtStrings(n) ==
    IF n <= 1 THEN PtClauses
    ELSE LET shorter == PtStrings(n - 1)
         IN  shorter
             \cup {t \o <<"comma">> \o c : t \in shorter, c \in PtMore}
             \cup {c \o <<"comma">> \o t : t \in shorter, c \in PtMore}

PtTimes == PtStrings(MaxPtClauses) \cup {NaN}

ParseInit ==
    /\ SessionInit /\ FnIdle /\ LoadIdle /\ CreditIdle /\ ListIdle /\ RetryIdle
    /\ pt_time \in PtTimes
    /\ pt_result = <<>>

\* slots = parse_time(time_str)
CallParseTime ==
    /\ pt_result = <<>>
    /\ pt_result' = <<[error |-> parse_time_raises(pt_time),
                       slots |-> parse_time(pt_time)]>>
    /\ UNCHANGED <<pt_time, session_vars, fn_vars, load_vars, credit_vars,
                   list_vars, rt>>

ParseNext == CallParseTime

SpecParse == ParseInit /\ [][ParseNext]_vars

\* ------------------------------------------------------------------------
\* Loading the catalog from arbitrary sheets

\* The most rows a sheet has.
MaxSheetRows == 3

\* Texts of the audience column: two plain ones, one that holds another,
\* and a missing cell.
Audiences == { <<"A">>, <<"B">>, <<"A", "comma", "B">>, NaN }

SheetKeys == { <<1, 1>>, <<1, 2>>, <<2, 1>> }

SheetRows == {SheetRow(k[1], k[2], a) : k \in SheetKeys, a \in Audiences}

LoadInit ==
    /\ SessionInit /\ FnIdle /\ ParseIdle /\ CreditIdle /\ ListIdle /\ RetryIdle
    /\ ld_path \in Paths
    /\ ld_rows \in IF ld_path = "sample" THEN {<<>>}
                   ELSE SeqsUpTo(SheetRows, MaxSheetRows) \ {<<>>}
    /\ ld_df = <<>>

\* df = load_data(), then the upload or the sample data when it is None
LoadCatalog ==
    /\ ld_df = <<>>
    /\ ld_df' = <<main_df(ld_path, ld_rows)>>
    /\ UNCHANGED <<ld_rows, ld_path, session_vars, fn_vars, parse_vars,
                   credit_vars, list_vars, rt>>

LoadNext == LoadCatalog

SpecLoad == LoadInit /\ [][LoadNext]_vars

\* ------------------------------------------------------------------------
\* The credit total and the credit banner over arbitrary lists

\* The longest list of selected courses a banner is computed for.
MaxCreditCourses == 3

\* Credit cells: numbers that add up to the caps and just past them, a
\* missing cell, a text that is no number, a text that is one, no column.
CreditCells ==
    { Number(<<"1">>), Number(<<"1", "2">>), Number(<<"1", "3">>),
      Number(<<"1", "5">>), MissingNumber, Text(<<"x">>), Text(<<"3">>),
      Absent }

CreditCourses == {[cankaoxuefen |-> cell] : cell \in CreditCells}

\* What a script run shows of the credits: how line 623 ended, and below the
\* timetable the total, the limit and whether the warning is drawn.
credit_banner(selected, degree_type) ==
    IF credits_raise(selected)
    THEN [error |-> "ValueError",
          current_credits |-> [nan |-> FALSE, value |-> 0],
          max_credits |-> max_credits(degree_type), warning |-> FALSE]
    ELSE [error |-> "none",
          current_credits |-> current_credits(selected),
          max_credits |-> max_credits(degree_type),
          warning |-> over_limit(current_credits(selected),
                                 max_credits(degree_type))]

CreditInit ==
    /\ SessionInit /\ FnIdle /\ ParseIdle /\ LoadIdle /\ ListIdle /\ RetryIdle
    /\ cr_selected \in SeqsUpTo(CreditCourses, MaxCreditCourses)
    /\ cr_degree \in {"single", "double"}
    /\ cr_banner = <<>>

\* One script run, as far as the credits go.
ShowCredits ==
    /\ cr_banner = <<>>
    /\ cr_banner' = <<credit_banner(cr_selected, cr_degree)>>
    /\ UNCHANGED <<cr_selected, cr_degree, session_vars, fn_vars, parse_vars,
                   load_vars, list_vars, rt>>

CreditNext == ShowCredits

SpecCredit == CreditInit /\ [][CreditNext]_vars

\* ------------------------------------------------------------------------
\* The course list of the page: the eligibility mask, the two filters and
\* the pagination, over a catalog of its own

ListRows == 30

\* '全校学生在籍', one name per character
marker == <<"quan", "xiao", "xue", "sheng", "zai", "ji">>

\* The departments, in the order sorted() puts them.
DeptOrder == <<"D1", "D2", "D3">>

\* Texts of the audience column: a missing cell, the marker alone, a text
\* without it, a text that holds it in the middle, a text that stops short
\* of it.
ListAudiences ==
    << NaN,
       marker,
       <<"ben", "yuan">>,
       <<"ben", "yuan", "comma">> \o marker \o <<"x">>,
       <<"quan", "xiao", "xue", "sheng">> >>

\* Titles: lower case, upper case, mixed, missing.
ListTitles == << <<"a", "b">>, <<"B">>, <<"A", "x">>, NaN >>

\* The columns of df the course list reads: yuanxi = department,
\* xiududuixiang = audience, kechengming = title.
list_df ==
    [i \in 1..ListRows |->
        [yuanxi |-> DeptOrder[(i % 3) + 1],
         xiududuixiang |-> ListAudiences[(i % 5) + 1],
         kechengming |-> ListTitles[(i % 4) + 1]]]

all_rows == [i \in 1..ListRows |-> i]

\* Series.fillna(value)
fillna(v, value) == IF isna(v) THEN value ELSE v

startswith(s, prefix) ==
    Len(prefix) <= Len(s) /\ SubSeq(s, 1, Len(prefix)) = prefix

\* `pat in s`, by scanning s from the left.
RECURSIVE str_contains(_, _)
str_contains(s, pat) ==
    IF Len(s) < Len(pat) THEN FALSE
    ELSE IF startswith(s, pat) THEN TRUE
    ELSE str_contains(Tail(s), pat)

\* str.lower, on the letters of the titles
lower(s) ==
    [i \in 1..Len(s) |-> IF s[i] = "A" THEN "a"
                         ELSE IF s[i] = "B" THEN "b" ELSE s[i]]

\* Series.str.contains(course_search, case=False, na=False, regex=False)
title_contains(title, course_search) ==
    IF isna(title) THEN FALSE
    ELSE str_contains(lower(title), lower(course_search))

\* sorted(frame[department].unique()), of the rows `rows` of df
sorted_unique(rows) ==
    SelectSeq(DeptOrder,
              LAMBDA d : \E k \in 1..Len(rows) : list_df[rows[k]].yuanxi = d)

departments == sorted_unique(all_rows)

\* [dept for dept in departments if dept != user_dept]
second_dept_options(user_dept) ==
    SelectSeq(departments, LAMBDA dept : dept # user_dept)

\* What a selectbox returns: the value it holds when that is one of its
\* options, else its first option, and None when it has no option.
selectbox(options, value) ==
    IF \E k \in 1..Len(options) : options[k] = value THEN value
    ELSE IF options = <<>> THEN None
    ELSE options[1]

\* The mask without the second department.
mask_single(i, user_dept, degree_type, second_dept) ==
    \/ list_df[i].yuanxi = user_dept
    \/ str_contains(fillna(list_df[i].xiududuixiang, <<>>), marker)

\* mask, for row i of df
mask(i, user_dept, degree_type, second_dept) ==
    IF degree_type = "double" /\ truthy(second_dept)
    THEN \/ list_df[i].yuanxi = user_dept
         \/ list_df[i].yuanxi = second_dept
         \/ str_contains(fillna(list_df[i].xiududuixiang, <<>>), marker)
    ELSE \/ list_df[i].yuanxi = user_dept
         \/ str_contains(fillna(list_df[i].xiududuixiang, <<>>), marker)

courses_per_page == 10

\* The page number left as it is.
clamp_none(current_page, total_pages) == current_page

\* "Ensure current page is valid"
clamp(current_page, total_pages) ==
    LET capped == IF current_page > total_pages THEN total_pages
                  ELSE current_page
    IN  IF capped < 1 THEN 1 ELSE capped

\* frame.iloc[start_idx:end_idx]
iloc(frame, start_idx, end_idx) ==
    LET stop == IF end_idx < Len(frame) THEN end_idx ELSE Len(frame)
    IN  IF start_idx >= stop THEN <<>> ELSE SubSeq(frame, start_idx + 1, stop)

\* One script run, as far as the course list goes: what the widgets return,
\* the filtered frames (as the row numbers they keep), the page count, the
\* page number before and after the clamp and the rows of the page.
list_run(op, user_dept, degree_type, second, filter, course_search, page) ==
    LET second_dept ==
            IF degree_type = "double"
            THEN selectbox(second_dept_options(user_dept), second)
            ELSE None
        offered ==
            SelectSeq(all_rows,
                      LAMBDA i : mask(i, user_dept, degree_type, second_dept))
        all_depts == <<"all">> \o sorted_unique(offered)
        dept_filter == selectbox(all_depts, filter)
        by_dept ==
            IF dept_filter # "all"
            THEN SelectSeq(offered,
                           LAMBDA i : list_df[i].yuanxi = dept_filter)
            ELSE offered
        filtered_df ==
            IF course_search # <<>>
            THEN SelectSeq(by_dept,
                           LAMBDA i : title_contains(list_df[i].kechengming,
                                                     course_search))
            ELSE by_dept
        total_courses == Len(filtered_df)
        total_pages ==
            IF total_courses > 0
            THEN (total_courses - 1) \div courses_per_page + 1
            ELSE 1
        current_page == clamp(page, total_pages)
        start_idx == (current_page - 1) * courses_per_page
        end_idx == start_idx + courses_per_page
    IN  [op |-> op,
         asked |-> page,
         second_dept |-> second_dept,
         offered |-> offered,
         all_depts |-> all_depts,
         dept_filter |-> dept_filter,
         filtered_df |-> filtered_df,
         total_pages |-> total_pages,
         current_page |-> current_page,
         page_courses |-> iloc(filtered_df, start_idx, end_idx)]

\* The session takes what the run returned.
ListShow(run) ==
    /\ ls_second_dept' = run.second_dept
    /\ ls_dept_filter' = run.dept_filter
    /\ ls_current_page' = run.current_page
    /\ ls_page' = <<run>>
    /\ UNCHANGED <<session_vars, fn_vars, parse_vars, load_vars, credit_vars,
                   rt>>

ListSearches == { <<>>, <<"a">>, <<"B">>, <<"x", "x">> }

\* The first script run: every widget at its default.
ListInit ==
    /\ SessionInit /\ FnIdle /\ ParseIdle /\ LoadIdle /\ CreditIdle
    /\ RetryIdle
    /\ ls_user_dept = departments[1]
    /\ ls_degree_type = "single"
    /\ ls_course_search = <<>>
    /\ \E run \in {list_run("start", departments[1], "single", None, "all",
                            <<>>, 1)} :
           /\ ls_second_dept = run.second_dept
           /\ ls_dept_filter = run.dept_filter
           /\ ls_current_page = run.current_page
           /\ ls_page = <<run>>

\* The user picks another department of their own.
ChangeUserDept(d) ==
    /\ d # ls_user_dept
    /\ \E k \in 1..Len(departments) : departments[k] = d
    /\ ls_user_dept' = d
    /\ UNCHANGED <<ls_degree_type, ls_course_search>>
    /\ \E run \in {list_run("user_dept", d, ls_degree_type, ls_second_dept,
                            ls_dept_filter, ls_course_search,
                            ls_current_page)} : ListShow(run)

\* The user switches between single and double degree.
ChangeDegree(t) ==
    /\ t \in {"single", "double"}
    /\ t # ls_degree_type
    /\ ls_degree_type' = t
    /\ UNCHANGED <<ls_user_dept, ls_course_search>>
    /\ \E run \in {list_run("degree", ls_user_dept, t, ls_second_dept,
                            ls_dept_filter, ls_course_search,
                            ls_current_page)} : ListShow(run)

\* The user picks another second department (the box is there under a
\* double degree only).
ChangeSecondDept(d) ==
    /\ ls_degree_type = "double"
    /\ d # ls_second_dept
    /\ \E k \in 1..Len(second_dept_options(ls_user_dept)) :
           second_dept_options(ls_user_dept)[k] = d
    /\ UNCHANGED <<ls_user_dept, ls_degree_type, ls_course_search>>
    /\ \E run \in {list_run("second_dept", ls_user_dept, ls_degree_type, d,
                            ls_dept_filter, ls_course_search,
                            ls_current_page)} : ListShow(run)

\* The user picks another entry of the department filter:
\* reset_page_callback, then the run.
ChangeDeptFilter(f) ==
    /\ f # ls_dept_filter
    /\ \E k \in 1..Len(ls_page[1].all_depts) : ls_page[1].all_depts[k] = f
    /\ UNCHANGED <<ls_user_dept, ls_degree_type, ls_course_search>>
    /\ \E run \in {list_run("dept_filter", ls_user_dept, ls_degree_type,
                            ls_second_dept, f, ls_course_search, 1)} :
           ListShow(run)

\* The user types another search text: reset_page_callback, then the run.
ChangeSearch(s) ==
    /\ s \in ListSearches
    /\ s # ls_course_search
    /\ ls_course_search' = s
    /\ UNCHANGED <<ls_user_dept, ls_degree_type>>
    /\ \E run \in {list_run("search", ls_user_dept, ls_degree_type,
                            ls_second_dept, ls_dept_filter, s, 1)} :
           ListShow(run)

\* The "<-" button: there when the last run counted more than one page, and
\* enabled when it drew a page after the first.
PrevPage ==
    /\ ls_page[1].total_pages > 1
    /\ ~(ls_current_page <= 1)
    /\ UNCHANGED <<ls_user_dept, ls_degree_type, ls_course_search>>
    /\ \E run \in {list_run("prev", ls_user_dept, ls_degree_type,
                            ls_second_dept, ls_dept_filter, ls_course_search,
                            ls_current_page - 1)} : ListShow(run)

\* The "->" button.
NextPage ==
    /\ ls_page[1].total_pages > 1
    /\ ~(ls_current_page >= ls_page[1].total_pages)
    /\ UNCHANGED <<ls_user_dept, ls_degree_type, ls_course_search>>
    /\ \E run \in {list_run("next", ls_user_dept, ls_degree_type,
                            ls_second_dept, ls_dept_filter, ls_course_search,
                            ls_current_page + 1)} : ListShow(run)

\* The "Clear Cache" button: page 1, then st.rerun().
ClearCache ==
    /\ ls_page[1].op # "clear"
    /\ UNCHANGED <<ls_user_dept, ls_degree_type, ls_course_search>>
    /\ \E run \in {list_run("clear", ls_user_dept, ls_degree_type,
                            ls_second_dept, ls_dept_filter, ls_course_search,
                            1)} : ListShow(run)

ListNext ==
    \/ \E d \in Range(DeptOrder) : ChangeUserDept(d)
    \/ \E t \in {"single", "double"} : ChangeDegree(t)
    \/ \E d \in Range(DeptOrder) : ChangeSecondDept(d)
    \/ \E f \in {"all"} \cup Range(DeptOrder) : ChangeDeptFilter(f)
    \/ \E s \in ListSearches : ChangeSearch(s)
    \/ PrevPage
    \/ NextPage
    \/ ClearCache

SpecList == ListInit /\ [][ListNext]_vars

\* ------------------------------------------------------------------------
\* A refused selection, a cancellation, and the same selection again

\* The most courses the list holds in these sessions.
MaxRetryEnrolled == 2

\* A selection: when it is refused, rt keeps its row and the list it was
\* refused over.
RetrySelect(r) ==
    /\ rt.phase \in {"build", "retried"}
    /\ SelectStep(r)
    /\ Len(selected_courses') <= MaxRetryEnrolled
    /\ rt' = IF truthy(last_op'.conflict_course)
             THEN [phase |-> "refused", row |-> r, over |-> selected_courses]
             ELSE [phase |-> "build"]
    /\ UNCHANGED <<fn_vars, aux_vars>>

\* A cancellation that does not follow a refusal.
RetryCancel(idx) ==
    /\ rt.phase \in {"build", "retried"}
    /\ CancelStep(idx)
    /\ rt' = [phase |-> "build"]
    /\ UNCHANGED <<fn_vars, aux_vars>>

\* The cancellation that follows a refusal.
RetryRemove(idx) ==
    /\ rt.phase = "refused"
    /\ CancelStep(idx)
    /\ rt' = [phase |-> "removed", row |-> rt.row, over |-> rt.over,
              idx |-> idx]
    /\ UNCHANGED <<fn_vars, aux_vars>>

\* The refused row selected again, right after the cancellation.
RetryAgain ==
    /\ rt.phase = "removed"
    /\ SelectStep(rt.row)
    /\ rt' = [phase |-> "retried", row |-> rt.row, over |-> rt.over,
              idx |-> rt.idx, before |-> selected_courses]
    /\ UNCHANGED <<fn_vars, aux_vars>>

RetryInit ==
    /\ SessionInit /\ FnIdle /\ ParseIdle /\ LoadIdle /\ CreditIdle
    /\ ListIdle
    /\ rt = [phase |-> "build"]

RetryNext ==
    \/ \E r \in 1..Len(df) : RetrySelect(r)
    \/ \E idx \in 0..(MaxRetryEnrolled - 1) : RetryCancel(idx)
    \/ \E idx \in 0..(MaxRetryEnrolled - 1) : RetryRemove(idx)
    \/ RetryAgain

SpecRetry == RetryInit /\ [][RetryNext]_vars

\* ------------------------------------------------------------------------
\* Vocabulary of the properties

\* The parses of the meeting strings of the catalog and of the direct calls,
\* computed once.
Parsed ==
    [time \in FnTimes \cup {c.shangkeshijian : c \in FnCourses}
               \cup {raw_df[i].shangkeshijian : i \in 1..Len(raw_df)} |->
        parse_time(time)]

\* The parse of a meeting string.
ParseOf(time) ==
    IF time \in DOMAIN Parsed THEN Parsed[time] ELSE parse_time(time)

\* The slots of a section: the parse of its meeting string.
SlotsOf(section) == ParseOf(section.shangkeshijian)

Complementary(w1, w2) == {w1, w2} = {"odd", "even"}

\* Two slots conflict: same day, c.start <= e.end and c.end >= e.start, and
\* not one Odd and the other Even.
SlotsClash(c, e) ==
    /\ c.day = e.day
    /\ c.start_period <= e.end_period
    /\ c.end_period >= e.start_period
    /\ ~Complementary(c.week_type, e.week_type)

\* Some slot of the one list conflicts with some slot of the other.
SlotListsClash(cs, es) ==
    \E i \in 1..Len(cs) : \E j \in 1..Len(es) : SlotsClash(cs[i], es[j])

\* The positions of the enrolled sequence whose section conflicts with the
\* meeting string.
ClashPositions(time, selected) ==
    {k \in 1..Len(selected) :
        SlotListsClash(ParseOf(time), SlotsOf(selected[k]))}

\* ------------------------------------------------------------------------
\* C1 - No two sections of the list of selected courses have a pair of
\* conflicting slots, whatever selections and cancellations came before.
C1_NoConflictInEnrolledSet ==
    \A i \in 1..Len(selected_courses) : \A j \in 1..Len(selected_courses) :
        i < j => ~SlotListsClash(SlotsOf(selected_courses[i]),
                                 SlotsOf(selected_courses[j]))

\* C2 - check_conflict reports a conflict (returns something other than None)
\* if and only if some candidate slot and some slot of an enrolled section are
\* on the same day, overlap in periods and are not an Odd/Even pair.
C2_ConflictIff ==
    fn_conflict # <<>> =>
        (fn_conflict[1] # None <=> ClashPositions(fn_time, fn_selected) # {})

\* C2 happens: a conflict is reported although the candidate also overlaps an
\* enrolled slot of the complementary parity on the same day.
C2_Witness ==
    /\ fn_conflict # <<>>
    /\ fn_conflict[1] # None
    /\ \E k \in 1..Len(fn_selected) :
           /\ k \notin ClashPositions(fn_time, fn_selected)
           /\ \E i \in 1..Len(parse_time(fn_time)) :
               \E j \in 1..Len(SlotsOf(fn_selected[k])) :
                  LET c == parse_time(fn_time)[i]
                      e == SlotsOf(fn_selected[k])[j]
                  IN  /\ c.day = e.day
                      /\ c.start_period <= e.end_period
                      /\ c.end_period >= e.start_period
                      /\ Complementary(c.week_type, e.week_type)

\* C3 - When the candidate conflicts with enrolled sections, the result is
\* the title of the one that comes first in the enrolled sequence.
C3_FirstMatch ==
    (fn_conflict # <<>> /\ ClashPositions(fn_time, fn_selected) # {}) =>
        LET first == CHOOSE k \in ClashPositions(fn_time, fn_selected) :
                        \A m \in ClashPositions(fn_time, fn_selected) : k <= m
        IN  fn_conflict[1] = fn_selected[first].kechengming

\* C3 happens: two enrolled sections with different titles conflict with the
\* candidate, after a leading section that does not.
C3_Witness ==
    /\ fn_conflict # <<>>
    /\ \E k, m \in ClashPositions(fn_time, fn_selected) :
           /\ 1 < k
           /\ k < m
           /\ fn_selected[k].kechengming # fn_selected[m].kechengming
           /\ fn_conflict[1] = fn_selected[k].kechengming

\* C4 - A selection changes the list exactly so: refused and unchanged when
\* the candidate conflicts with an enrolled section, the candidate appended
\* behind the unchanged others when it does not.
C4_SelectEffect ==
    [][last_op'.kind = "select" =>
          IF ClashPositions(df[last_op'.row].shangkeshijian, selected_courses) # {}
          THEN selected_courses' = selected_courses
          ELSE selected_courses' = Append(selected_courses, df[last_op'.row])]_vars

\* C5 - The list of selected courses never holds two entries with the same
\* (course id, class id).
C5_NoDuplicateKey ==
    \A i \in 1..Len(selected_courses) : \A j \in 1..Len(selected_courses) :
        i # j => course_keys(selected_courses)[i] # course_keys(selected_courses)[j]

\* The enrolled sequence without the sections that have no slots.
RECURSIVE WithSlots(_)
WithSlots(selected) ==
    IF selected = <<>> THEN <<>>
    ELSE IF SlotsOf(Head(selected)) = <<>> THEN WithSlots(Tail(selected))
    ELSE <<Head(selected)>> \o WithSlots(Tail(selected))

\* C6 - A section without slots never conflicts: a candidate without slots
\* gets None whatever is enrolled, and the result for any candidate is the one
\* it gets with the slotless enrolled sections taken out of the sequence.
C6_NoSlotsNoConflict ==
    fn_conflict # <<>> =>
        /\ (parse_time(fn_time) = <<>> => fn_conflict[1] = None)
        /\ fn_conflict[1] = check_conflict(fn_time, WithSlots(fn_selected))
        /\ \A k \in ClashPositions(fn_time, fn_selected) :
               SlotsOf(fn_selected[k]) # <<>>

\* C6 happens: a slotless section is enrolled ahead of the one reported.
C6_Witness ==
    /\ fn_conflict # <<>>
    /\ fn_conflict[1] # None
    /\ Len(fn_selected) >= 2
    /\ SlotsOf(fn_selected[1]) = <<>>
    /\ fn_selected[1].kechengming # fn_conflict[1]

\* C7 - In the grid shown for the list of selected courses, any two entries
\* of one cell have the complementary parities Odd and Even.
C7_CellsComplementary ==
    rendered # <<>> =>
        \A d \in days : \A p \in periods :
            \A i \in 1..Len(rendered[1][d][p]) : \A j \in 1..Len(rendered[1][d][p]) :
                i < j => Complementary(rendered[1][d][p][i].week,
                                       rendered[1][d][p][j].week)

\* The slot lists of the sections of an enrolled sequence, in its order.
RECURSIVE SlotLists(_)
SlotLists(selected) ==
    IF selected = <<>> THEN <<>>
    ELSE <<SlotsOf(Head(selected))>> \o SlotLists(Tail(selected))

\* Slot j of section k has the day d and startPeriod <= p <= endPeriod.
Covers(lists, k, j, d, p) ==
    /\ lists[k][j].day = d
    /\ lists[k][j].start_period <= p
    /\ p <= lists[k][j].end_period

\* The (section, slot) positions that cover cell (d, p).
Covering(lists, d, p) ==
    {ks \in UNION {{<<k, j>> : j \in 1..Len(lists[k])} : k \in 1..Len(lists)} :
        Covers(lists, ks[1], ks[2], d, p)}

\* The entry a (section, slot) position stands for: the label made of title
\* and class id, and the slot's parity.
EntryOf(selected, lists, k, j) ==
    [course |-> <<selected[k].kechengming, selected[k].banhao>>,
     week |-> lists[k][j].week_type]

\* C8 - For every enrolled sequence create_timetable returns a grid whose
\* cell (day, period) holds one entry {label, parity} for each slot of an
\* enrolled section with that day and startPeriod <= period <= endPeriod,
\* and nothing else; no slot is left without its entries.
C8_ExactFootprint ==
    fn_timetable # <<>> =>
        \E lists \in {SlotLists(fn_selected)} :
            /\ fn_timetable[1].error = "none"
            /\ \A k \in 1..Len(lists) : \A j \in 1..Len(lists[k]) :
                   \A p \in lists[k][j].start_period..lists[k][j].end_period :
                       p \in periods
            /\ \A d \in days : \A p \in periods :
                   \E cell \in {fn_timetable[1].timetable[d][p]} :
                   \E cover \in {Covering(lists, d, p)} :
                       /\ Len(cell) = Cardinality(cover)
                       /\ \A ks \in cover :
                              Cardinality({i \in 1..Len(cell) :
                                  cell[i] = EntryOf(fn_selected, lists, ks[1], ks[2])})
                              = Cardinality({ms \in cover :
                                  EntryOf(fn_selected, lists, ms[1], ms[2])
                                  = EntryOf(fn_selected, lists, ks[1], ks[2])})

\* C9 - Projecting the list of selected courses never fails: every script
\* run ends without error, and create_timetable returns a grid of exactly
\* the cells {Mon..Sun} x {1..12}, the uncovered ones empty.
C9_ProjectionTotal ==
    \E out \in {create_timetable(selected_courses)} :
    \E lists \in {SlotLists(selected_courses)} :
        /\ run_error = "none"
        /\ out.error = "none"
        /\ DOMAIN out.timetable = days
        /\ \A d \in days :
               /\ DOMAIN out.timetable[d] = 1..12
               /\ \A p \in 1..12 :
                      Covering(lists, d, p) = {} => out.timetable[d][p] = <<>>

\* The entries of cell (d, p) due to the slots of section k from slot j on,
\* in slot order.
RECURSIVE SectionEntries(_, _, _, _, _, _)
SectionEntries(selected, lists, k, j, d, p) ==
    IF j > Len(lists[k]) THEN <<>>
    ELSE (IF Covers(lists, k, j, d, p)
          THEN <<EntryOf(selected, lists, k, j)>> ELSE <<>>)
         \o SectionEntries(selected, lists, k, j + 1, d, p)

\* The entries of cell (d, p) due to the sections from position k on, in the
\* order of enrollment.
RECURSIVE OrderedEntries(_, _, _, _, _)
OrderedEntries(selected, lists, k, d, p) ==
    IF k > Len(selected) THEN <<>>
    ELSE SectionEntries(selected, lists, k, 1, d, p)
         \o OrderedEntries(selected, lists, k + 1, d, p)

\* C10 - In every cell of a grid create_timetable returns, the entries stand
\* in the order in which their sections were enrolled, those of one section
\* in the order of its slots.
C10_CellOrder ==
    (fn_timetable # <<>> /\ fn_timetable[1].error = "none") =>
        \E lists \in {SlotLists(fn_selected)} :
            \A d \in days : \A p \in periods :
                fn_timetable[1].timetable[d][p]
                    = OrderedEntries(fn_selected, lists, 1, d, p)

\* C10 happens: a cell holds two different entries of one section behind an
\* entry of a section enrolled before it.
C10_Witness ==
    /\ fn_timetable # <<>>
    /\ fn_timetable[1].error = "none"
    /\ \E d \in days : \E p \in periods :
           LET cell == fn_timetable[1].timetable[d][p]
           IN  /\ Len(cell) = 3
               /\ cell[1].course # cell[2].course
               /\ cell[2].course = cell[3].course
               /\ cell[2].week # cell[3].week


\* ------------------------------------------------------------------------
\* Vocabulary of the properties of parse_time

\* The clauses of a meeting string: the texts between its full-width commas,
\* left to right.
RECURSIVE ClausesFrom(_, _, _)
ClausesFrom(s, start, i) ==
    IF i > Len(s) THEN <<SubSeq(s, start, Len(s))>>
    ELSE IF s[i] = "comma"
         THEN <<SubSeq(s, start, i - 1)>> \o ClausesFrom(s, i + 1, i + 1)
         ELSE ClausesFrom(s, start, i + 1)

ClausesOf(s) == IF s = NaN THEN <<>> ELSE ClausesFrom(s, 1, 1)

EndsWith(c, m) == c # <<>> /\ c[Len(c)] = m

\* The clause without the week marker it ends with, if it ends with one.
Unmarked(c) ==
    IF EndsWith(c, "dan") \/ EndsWith(c, "shuang")
    THEN SubSeq(c, 1, Len(c) - 1) ELSE c

\* The parity the trailing marker of a clause stands for.
TrailingParity(c) ==
    IF EndsWith(c, "dan") THEN "odd"
    ELSE IF EndsWith(c, "shuang") THEN "even" ELSE "all"

DayChars == {"yi", "er", "san", "si", "wu", "liu", "ri"}

DayAtStart(c) == Len(c) >= 2 /\ c[1] = "zhou" /\ c[2] \in DayChars

DayTokenSomewhere(c) ==
    \E i \in 1..(Len(c) - 1) : c[i] = "zhou" /\ c[i + 1] \in DayChars

DayOf(c) ==
    CASE c[2] = "yi" -> "mon" [] c[2] = "er" -> "tue" [] c[2] = "san" -> "wed"
      [] c[2] = "si" -> "thu" [] c[2] = "wu" -> "fri" [] c[2] = "liu" -> "sat"
      [] c[2] = "ri" -> "sun"

\* t is an integer as written: digits, possibly with blanks around them.
IntText(t) ==
    \E a, b \in 1..Len(t) :
        /\ a <= b
        /\ \A i \in 1..Len(t) :
              IF a <= i /\ i <= b THEN t[i] \in Digits ELSE t[i] = " "

NotBlank(c) == c # " "

IntValue(t) == digits_value(SelectSeq(t, NotBlank))

\* The position of the '-' that makes r read <int>-<int>; 0 if r does not.
DashOf(r) ==
    IF \E k \in 1..Len(r) : /\ r[k] = "-"
                            /\ IntText(SubSeq(r, 1, k - 1))
                            /\ IntText(SubSeq(r, k + 1, Len(r)))
    THEN CHOOSE k \in 1..Len(r) : /\ r[k] = "-"
                                  /\ IntText(SubSeq(r, 1, k - 1))
                                  /\ IntText(SubSeq(r, k + 1, Len(r)))
    ELSE 0

\* A clause as the specification describes it: a day token at its start,
\* then <int>-<int>, then possibly one week marker.
WellFormed(c) ==
    /\ DayAtStart(Unmarked(c))
    /\ DashOf(SubSeq(Unmarked(c), 3, Len(Unmarked(c)))) # 0

\* Day and periods of a well-formed clause, as written.
Written(c) ==
    LET r == SubSeq(Unmarked(c), 3, Len(Unmarked(c)))
        k == DashOf(r)
    IN  [day |-> DayOf(c),
         start_period |-> IntValue(SubSeq(r, 1, k - 1)),
         end_period |-> IntValue(SubSeq(r, k + 1, Len(r)))]

RECURSIVE WrittenSlots(_)
WrittenSlots(clauses) ==
    IF clauses = <<>> THEN <<>>
    ELSE (IF WellFormed(Head(clauses)) THEN <<Written(Head(clauses))>> ELSE <<>>)
         \o WrittenSlots(Tail(clauses))

DayAndPeriods(slot) ==
    [day |-> slot.day, start_period |-> slot.start_period,
     end_period |-> slot.end_period]

Called == pt_result # <<>>

Returned == pt_result[1].slots

\* ------------------------------------------------------------------------
\* C11  parse_time returns, left to right, exactly one slot for each clause
\* between full-width commas that starts with a day token followed by
\* <int>-<int>, with the day and the periods as written; any other clause
\* contributes nothing and leaves the slots of the other clauses as they are.
C11_OneSlotPerGoodClause ==
    Called =>
        /\ Len(Returned) = Len(WrittenSlots(ClausesOf(pt_time)))
        /\ \A i \in 1..Len(Returned) :
              DayAndPeriods(Returned[i]) = WrittenSlots(ClausesOf(pt_time))[i]


\* The clause holds no day token at all.
MissingDayToken(c) == ~DayTokenSomewhere(c)

\* The clause starts with a day token and what follows it, up to a trailing
\* week marker, is not <int>-<int>.
MalformedRange(c) ==
    /\ DayAtStart(c)
    /\ DashOf(SubSeq(Unmarked(c), 3, Len(Unmarked(c)))) = 0

\* ------------------------------------------------------------------------
\* C12  parse_time never raises: an empty or missing meeting string gives
\* the empty sequence, and every clause that has no day token or whose
\* period range is malformed or non-numeric is dropped.
C12_NeverRaisesDropsBad ==
    Called =>
        /\ pt_result[1].error = "none"
        /\ (pt_time = NaN \/ pt_time = <<>>) => Returned = <<>>
        /\ \A i \in 1..Len(ClausesOf(pt_time)) :
              LET c == ClausesOf(pt_time)[i]
              IN  (MissingDayToken(c) \/ MalformedRange(c))
                      => parse_time(c) = <<>>

\* ------------------------------------------------------------------------
\* C13  The parity of a slot comes from a trailing marker only: odd exactly
\* when its clause ends with the odd marker, even exactly when it ends with
\* the even marker, all otherwise; and the same clause with the odd or the
\* even marker appended gives slots that differ in parity only.
C13_ParityFromTrailingMarker ==
    Called =>
        \A i \in 1..Len(ClausesOf(pt_time)) :
            LET c == ClausesOf(pt_time)[i]
            IN  parse_time(c) # <<>> =>
                   /\ parse_time(c)[1].week_type = TrailingParity(c)
                   /\ parse_time(Unmarked(c) \o <<"dan">>) =
                          <<[parse_time(c)[1] EXCEPT !.week_type = "odd"]>>
                   /\ parse_time(Unmarked(c) \o <<"shuang">>) =
                          <<[parse_time(c)[1] EXCEPT !.week_type = "even"]>>

\* ------------------------------------------------------------------------
\* C14  Every slot parse_time returns is well formed: its day is one of the
\* seven days, its parity one of all, odd, even, its first period is at
\* least 1 and not after its last period.
C14_SlotsWellFormed ==
    Called =>
        \A i \in 1..Len(Returned) :
            /\ Returned[i].day \in {"mon", "tue", "wed", "thu", "fri", "sat", "sun"}
            /\ Returned[i].week_type \in {"all", "odd", "even"}
            /\ Returned[i].start_period >= 1
            /\ Returned[i].start_period <= Returned[i].end_period


\* ------------------------------------------------------------------------
\* Vocabulary of the properties of the catalog

Loaded == ld_df # <<>>

Catalog == ld_df[1]

Merging == ld_path \in {"parquet", "excel"}

KeyOf(row) == <<row.kechenghao, row.banhao>>

\* Positions of the sheet rows with this key.
RowsWith(key) == {i \in 1..Len(ld_rows) : KeyOf(ld_rows[i]) = key}

SectionsWith(key) == {i \in 1..Len(Catalog) : KeyOf(Catalog[i]) = key}

\* How often the text t stands in the text s.
Occurrences(t, s) ==
    Cardinality({k \in 0..(Len(s) - Len(t)) : SubSeq(s, k + 1, k + Len(t)) = t})

\* Where t first stands in s.
FirstAt(t, s) ==
    CHOOSE k \in 0..(Len(s) - Len(t)) :
        /\ SubSeq(s, k + 1, k + Len(t)) = t
        /\ \A j \in 0..(k - 1) : SubSeq(s, j + 1, j + Len(t)) # t

\* The audience cell of a sheet row as text.
TextOf(i) ==
    IF ld_rows[i].xiududuixiang = NaN THEN <<"nan">>
    ELSE ld_rows[i].xiududuixiang

\* The sheet rows of the key whose text no earlier row of the key has.
FirstOccurrences(key) ==
    {i \in RowsWith(key) :
        \A j \in RowsWith(key) : j < i => TextOf(j) # TextOf(i)}

\* The texts of the key's first occurrences, joined by full-width commas.
RECURSIVE JoinedFrom(_, _)
JoinedFrom(key, i) ==
    IF i > Len(ld_rows) THEN <<>>
    ELSE IF i \in FirstOccurrences(key)
         THEN (IF \E j \in FirstOccurrences(key) : j < i
               THEN <<"comma">> ELSE <<>>)
              \o TextOf(i) \o JoinedFrom(key, i + 1)
         ELSE JoinedFrom(key, i + 1)

\* ------------------------------------------------------------------------
\* C15 (as stated)  The merge leaves exactly one section for each key of the
\* sheet, and the eligibility text of that section contains each distinct
\* eligibility text of the key's rows exactly once, in order of first
\* occurrence.
C15_EachTextOnce ==
    (Loaded /\ Merging) =>
        \A i \in 1..Len(ld_rows) :
            LET key == KeyOf(ld_rows[i])
            IN  /\ Cardinality(SectionsWith(key)) = 1
                /\ \A k \in SectionsWith(key) :
                      \A a, b \in RowsWith(key) :
                          (/\ ld_rows[a].xiududuixiang # NaN
                           /\ ld_rows[b].xiududuixiang # NaN)
                          => /\ Occurrences(TextOf(a),
                                            Catalog[k].xiududuixiang) = 1
                             /\ (a \in FirstOccurrences(key)
                                   /\ b \in FirstOccurrences(key) /\ a < b)
                                => FirstAt(TextOf(a), Catalog[k].xiududuixiang)
                                   < FirstAt(TextOf(b), Catalog[k].xiududuixiang)

\* C15 (amended)  The merge leaves exactly one section for each key of the
\* sheet and no other; for a key with several rows the eligibility text is
\* the rows' distinct texts (compared as whole texts, a missing one reading
\* 'nan') joined by full-width commas in order of first occurrence, for a
\* key with one row it is that row's cell.
C15_JoinOfDistinctTexts ==
    (Loaded /\ Merging) =>
        /\ \A k \in 1..Len(Catalog) : RowsWith(KeyOf(Catalog[k])) # {}
        /\ \A i \in 1..Len(ld_rows) :
              LET key == KeyOf(ld_rows[i])
              IN  /\ Cardinality(SectionsWith(key)) = 1
                  /\ \A k \in SectionsWith(key) :
                        Catalog[k].xiududuixiang =
                            IF Cardinality(RowsWith(key)) > 1
                            THEN JoinedFrom(key, 1)
                            ELSE ld_rows[i].xiududuixiang

\* Scenario A: two rows of one key with the texts A and B, a further row of
\* the key repeating A, merged into one section reading "A,B".
C15_Witness ==
    /\ Loaded /\ Merging
    /\ Len(ld_rows) = 3
    /\ \A i \in 1..3 : KeyOf(ld_rows[i]) = <<1, 1>>
    /\ ld_rows[1].xiududuixiang = <<"A">>
    /\ ld_rows[2].xiududuixiang = <<"B">>
    /\ ld_rows[3].xiududuixiang = <<"A">>
    /\ Len(Catalog) = 1
    /\ Catalog[1].xiududuixiang = <<"A", "comma", "B">>

\* ------------------------------------------------------------------------
\* C16  Whatever path supplies it, the catalog main goes on with holds at
\* most one section for each (course id, class id).
C16_OneSectionPerKey ==
    Loaded =>
        \A i, j \in 1..Len(Catalog) :
            KeyOf(Catalog[i]) = KeyOf(Catalog[j]) => i = j


\* ------------------------------------------------------------------------
\* C17  Cancelling the section at position i (0-based) of a list of n
\* selected courses leaves n-1 courses: exactly the others, unchanged and in
\* their order.
C17_CancelRemovesOne ==
    [][ last_op'.kind = "cancel" =>
           /\ last_op'.row \in 0..(Len(selected_courses) - 1)
           /\ Len(selected_courses') = Len(selected_courses) - 1
           /\ \A j \in 1..Len(selected_courses') :
                 selected_courses'[j] =
                     selected_courses[IF j <= last_op'.row THEN j ELSE j + 1]
      ]_vars

\* Scenario E: position 0 of three selected courses has just been cancelled.
C17_Witness ==
    /\ last_op.kind = "cancel"
    /\ last_op.row = 0
    /\ Len(selected_courses) = 2


\* ------------------------------------------------------------------------
\* C18  A credit overflow never blocks a selection: whatever the credit
\* total, a selected candidate that clashes with no selected course is
\* appended, and a selection is refused only when the candidate clashes.
C18_CreditNeverBlocks ==
    [][ last_op'.kind = "select" =>
           LET candidate == df[last_op'.row]
               clashes == ClashPositions(candidate.shangkeshijian,
                                         selected_courses)
           IN  /\ clashes = {} =>
                     selected_courses' = Append(selected_courses, candidate)
               /\ selected_courses' = selected_courses => clashes # {}
      ]_vars

\* Scenario D: two selected courses carry 27 credits, over the limit of 25
\* of a single degree, and a third course has just been appended.
C18_Witness ==
    /\ last_op.kind = "select"
    /\ last_op.conflict_course = None
    /\ Len(selected_courses) = 3
    /\ selected_courses[3] = df[last_op.row]
    /\ current_credits(SubSeq(selected_courses, 1, 2)).value = 27
    /\ over_limit(current_credits(SubSeq(selected_courses, 1, 2)),
                  max_credits("single"))

\* ------------------------------------------------------------------------
\* Vocabulary of the properties of the credits

\* What a credit cell counts for: its number, 0 when it is missing or no
\* number.
CreditValue(cell) ==
    IF cell.type = "number" \/ (cell.type = "str" /\ IntText(cell.text))
    THEN IntValue(cell.text) ELSE 0

RECURSIVE CreditSum(_)
CreditSum(selected) ==
    IF selected = <<>> THEN 0
    ELSE CreditValue(Head(selected).cankaoxuefen) + CreditSum(Tail(selected))

\* The limit of a degree type.
Cap(degree_type) ==
    CASE degree_type = "single" -> 25 [] degree_type = "double" -> 30

BannerShown == cr_banner # <<>>

\* ------------------------------------------------------------------------
\* C19  The credit total of any list of selected courses is the sum of the
\* courses' credits, a missing or non-numeric credit counting 0, and
\* computing it does not fail.
C19_TotalIsSum ==
    BannerShown =>
        /\ cr_banner[1].error = "none"
        /\ ~cr_banner[1].current_credits.nan
        /\ cr_banner[1].current_credits.value = CreditSum(cr_selected)

\* ------------------------------------------------------------------------
\* C20  The over-limit warning is drawn exactly when the credit total is
\* strictly over the limit of the selected degree type, 25 for a single and
\* 30 for a double degree; a total equal to the limit draws none.
C20_WarningIffOverCap ==
    (BannerShown /\ cr_banner[1].error = "none") =>
        /\ cr_banner[1].max_credits = Cap(cr_degree)
        /\ cr_banner[1].warning <=>
              (/\ ~cr_banner[1].current_credits.nan
               /\ cr_banner[1].current_credits.value > Cap(cr_degree))

\* A total of 26 under a single degree draws the warning.
C20_Witness ==
    /\ BannerShown
    /\ cr_banner[1].error = "none"
    /\ cr_degree = "single"
    /\ cr_banner[1].current_credits.value = 26
    /\ cr_banner[1].warning


\* ------------------------------------------------------------------------
\* C21  Whenever the list of selected courses is not empty, the grid a script
\* run draws (from the session cache or freshly built) is the projection of
\* the current list, and the cached grid is the projection of a list with
\* the key list it is stored under.
C21_RenderedIsProjection ==
    selected_courses # <<>> =>
        \E out \in {create_timetable(selected_courses)} :
            /\ rendered # <<>> => rendered[1] = out.timetable
            /\ (/\ timetable_cache # <<>>
                /\ timetable_courses_hash = <<course_keys(selected_courses)>>)
               => timetable_cache[1] = out.timetable

\* ------------------------------------------------------------------------
\* The course list

Listed == ls_page # <<>>

\* The text holds the marker somewhere; a missing cell holds nothing.
HoldsMarker(text) == text # NaN /\ Occurrences(marker, text) > 0

\* Row i of the catalog is offered by the last run.
Offered(i) == \E k \in 1..Len(ls_page[1].offered) : ls_page[1].offered[k] = i

\* Row i is of the user's department, or under a double degree of the second
\* department, or open to the entire school.
Eligible(i) ==
    \/ list_df[i].yuanxi = ls_user_dept
    \/ ls_degree_type = "double" /\ list_df[i].yuanxi = ls_second_dept
    \/ HoldsMarker(list_df[i].xiududuixiang)

PagesFor(n) ==
    CHOOSE k \in 1..(n + 1) :
        /\ k * courses_per_page >= n
        /\ k = 1 \/ (k - 1) * courses_per_page < n

\* C28  When a run slices the page, 1 <= current_page <= total_pages, where
\* total_pages is max(1, ceil(n / 10)) for the n courses that passed the
\* filters; the page is the current_page-th ten of them and holds at most
\* ten; a run that follows a change of the department filter or of the
\* search text, or a cache clear, is on page 1.
C28_PageWithinRange ==
    Listed =>
        LET run == ls_page[1]
            n == Len(run.filtered_df)
        IN  /\ run.total_pages = PagesFor(n)
            /\ 1 <= ls_current_page
            /\ ls_current_page <= run.total_pages
            /\ Len(run.page_courses) <= 10
            /\ \A k \in 1..Len(run.page_courses) :
                   run.page_courses[k] =
                       run.filtered_df[(ls_current_page - 1) * 10 + k]
            /\ Len(run.page_courses) < 10 =>
                   (ls_current_page - 1) * 10 + Len(run.page_courses) = n
            /\ run.op \in {"dept_filter", "search", "clear"} =>
                   ls_current_page = 1

\* A run that started on a page past the last one (the list got shorter
\* without a reset) and drew the last page, which is not the first.
C28_Witness ==
    /\ Listed
    /\ ls_page[1].asked > ls_page[1].total_pages
    /\ ls_current_page = ls_page[1].total_pages
    /\ ls_current_page > 1
    /\ Len(ls_page[1].page_courses) \in 1..9

\* ------------------------------------------------------------------------
\* Who changes the list of selected courses

\* The list without the course at the 0-based position idx.
Without(selected, idx) ==
    [k \in 1..(Len(selected) - 1) |->
        IF k <= idx THEN selected[k] ELSE selected[k + 1]]

InGrid(slots) ==
    \A j \in 1..Len(slots) :
        slots[j].start_period \in periods /\ slots[j].end_period \in periods

\* The grid create_timetable draws for one section with this meeting string.
GridOf(time) ==
    create_timetable(<<Row("X", "01", "X", Number(<<"0">>), time)>>).timetable

\* Two grids share a cell in which an entry of the one and an entry of the
\* other have parities that are not odd against even.
FootprintsMeet(g1, g2) ==
    \E d \in days : \E p \in periods :
        \E a \in 1..Len(g1[d][p]) : \E b \in 1..Len(g2[d][p]) :
            ~Complementary(g1[d][p][a].week, g2[d][p][b].week)

\* C24  For a candidate and one selected section whose slots all lie in the
\* periods 1..12, check_conflict returns a conflict if and only if the grids
\* of the two share a cell with parities that are not odd against even;
\* slots with startPeriod > endPeriod included.
C24_ConflictIffFootprintsMeet ==
    (/\ fn_conflict # <<>>
     /\ Len(fn_selected) = 1
     /\ InGrid(parse_time(fn_time))
     /\ InGrid(SlotsOf(fn_selected[1])))
    => ((fn_conflict[1] # None)
        <=> FootprintsMeet(GridOf(fn_time),
                           GridOf(fn_selected[1].shangkeshijian)))

\* C25  The conflict relation is symmetric: a selection of A with only B
\* selected is refused if and only if a selection of B with only A selected
\* is, so whether two sections can be selected together does not depend on
\* the order of their selection.
C25_ConflictSymmetric ==
    [][ (last_op'.kind = "select" /\ Len(selected_courses) = 1) =>
            (truthy(last_op'.conflict_course)
             <=> truthy(select_handler(selected_courses[1],
                                       <<df[last_op'.row]>>).conflict_course))
      ]_vars

\* ------------------------------------------------------------------------
\* The slots attached to a selected course

\* C26  The '_parsed_time' attached to every selected course, which the
\* projector uses, is the parse of the course's raw meeting string, which the
\* detector uses.
C26_AttachedSlotsAreTheParse ==
    \A k \in 1..Len(selected_courses) :
        /\ "parsed_time" \in DOMAIN selected_courses[k]
        /\ selected_courses[k].parsed_time
               = parse_time(selected_courses[k].shangkeshijian)

\* Selected together: a course with two slots and a course without a
\* meeting string.
C26_Witness ==
    \E i, j \in 1..Len(selected_courses) :
        /\ Len(selected_courses[i].parsed_time) = 2
        /\ isna(selected_courses[j].shangkeshijian)
        /\ selected_courses[j].parsed_time = <<>>

\* ------------------------------------------------------------------------
\* History

\* The refused selection had exactly one conflicting section in the list,
\* and that one was cancelled.
OnlyBlockerRemoved ==
    /\ rt.phase \in {"removed", "retried"}
    /\ ClashPositions(df[rt.row].shangkeshijian, rt.over) = {rt.idx + 1}

\* C27  When a selection of C is refused, X is the only selected section
\* that conflicts with C, and X is cancelled, then C can be selected again,
\* and that selection is taken and appends C to the list.
C27_RetrySucceeds ==
    OnlyBlockerRemoved =>
        /\ rt.phase = "removed" =>
               /\ selected_courses = Without(rt.over, rt.idx)
               /\ ~credits_raise(selected_courses)
        /\ rt.phase = "retried" =>
               /\ ~truthy(last_op.conflict_course)
               /\ selected_courses = rt.before \o <<df[rt.row]>>
               /\ rt.before = Without(rt.over, rt.idx)

\* The second attempt was taken, after a first one refused over two selected
\* sections of which only the cancelled one conflicted.
C27_Witness ==
    /\ rt.phase = "retried"
    /\ OnlyBlockerRemoved
    /\ Len(rt.over) = 2
    /\ Len(selected_courses) = 2
    /\ selected_courses[2] = df[rt.row]

\* ------------------------------------------------------------------------
\* Screen and export

\* The parity a cell text of the page ends with.
ScreenParity(info) ==
    IF info.mark = " (dan)" THEN "odd"
    ELSE IF info.mark = " (shuang)" THEN "even" ELSE "all"

\* The parity a cell text of the exported sheet ends with.
ExportParity(text) ==
    IF text.mark = " [dan]" THEN "odd"
    ELSE IF text.mark = " [shuang]" THEN "even" ELSE "all"

\* C29  In a run over a non-empty list of selected courses, every cell of the
\* exported sheet holds the same courses with the same parity in the same
\* order as the cell of the grid on the page; over an empty list nothing is
\* exported.
C29_ExportMatchesScreen ==
    /\ selected_courses = <<>> => exported = <<>>
    /\ (selected_courses # <<>> /\ rendered # <<>>) =>
           /\ exported # <<>>
           /\ \E screen \in {timetable_data_for_df(rendered[1])} :
                  \A d \in days : \A p \in periods :
                      /\ Len(exported[1][d][p]) = Len(screen[d][p])
                      /\ \A i \in 1..Len(screen[d][p]) :
                          /\ exported[1][d][p][i].course
                                 = screen[d][p][i].course
                          /\ ExportParity(exported[1][d][p][i])
                                 = ScreenParity(screen[d][p][i])

====
